---- MODULE Spec2Model ----
(***************************************************************************)
(* Ownership model of the aliasable crate: AliasableBox, AliasableVec and  *)
(* AliasableString handles, the unique owners (Box, Vec, String) they are  *)
(* converted from and to, and the allocator underneath.                    *)
(*                                                                         *)
(* A program is a set of named places (local variables), each holding one  *)
(* owner value or nothing.  The heap records, per address, whether a block *)
(* is live, the capacity the allocator reserved for it and the elements    *)
(* that are initialised in it.  AliasableVec::clone_from runs as a         *)
(* sequence of steps so that a panic of an element's clone can strike      *)
(* between any two element copies.                                         *)
(***************************************************************************)
EXTENDS Integers, Sequences, FiniteSets, TLC

\* ---------------------------------------------------------------- bounds
MaxLen    == 2      \* longest Vec / String the program builds

\* the local variables of the modelled program
Places == {"a", "b"}
\* values of the generic element type T: two, so that any two positions of
\* a buffer can hold different elements
Elems  == {1, 2}
\* bytes of the two characters "a" (one byte) and "e-acute" (two bytes)
Bytes  == {97, 195, 169}
\* largest capacity a buffer is given
MaxCap == MaxLen
\* one address more than there are places: a moving realloc needs a free one
Addrs  == 1..(Cardinality(Places) + 1)
\* NonNull::dangling(): the pointer of a Vec that has no allocation
Dangling == 0

VARIABLES
    val,    \* val[p]: the owner value held by place p
    mem,    \* the allocator: heap blocks and its call counters
    cf,     \* the running AliasableVec::clone_from call, if any
    rt      \* rt[p]: what a unique owner looked like when it was converted

vars == <<val, mem, cf, rt>>

\* ---------------------------------------------------------------- values
\* elem is the element type of the owner: the generic T, or u8 for the bytes of a String
NoValue == [kind |-> "None", elem |-> "T", pin |-> FALSE, ptr |-> Dangling, len |-> 0, cap |-> 0]

IsUnique(v)    == v.kind \in {"UniqueBox", "UniqueVec", "UniqueString"}
IsAliasable(v) == v.kind \in {"AliasableBox", "AliasableVec", "AliasableString"}
IsBox(v)       == v.kind \in {"UniqueBox", "AliasableBox"}
IsBuffer(v)    == v.kind \in {"UniqueVec", "AliasableVec", "UniqueString", "AliasableString"}

\* the sequences over S of length at most n
RECURSIVE SeqsUpTo(_, _)
SeqsUpTo(S, n) ==
    IF n = 0 THEN {<<>>}
    ELSE LET shorter == SeqsUpTo(S, n - 1)
         IN  shorter \cup {Append(q, e) : q \in {x \in shorter : Len(x) = n - 1}, e \in S}

\* str::from_utf8 over the two characters of Bytes
RECURSIVE IsUtf8(_)
IsUtf8(b) ==
    IF b = <<>> THEN TRUE
    ELSE IF b[1] = 97 THEN IsUtf8(Tail(b))
    ELSE IF b[1] = 195 THEN Len(b) >= 2 /\ b[2] = 169 /\ IsUtf8(Tail(Tail(b)))
    ELSE FALSE

\* ---------------------------------------------------------------- allocator
FreeBlock == [live |-> FALSE, cap |-> 0, data |-> <<>>]

InitMem == [heap |-> [a \in Addrs |-> FreeBlock], badFree |-> FALSE]

\* first fit: the lowest address that holds no live block
FreeAddr(m, avoid) ==
    LET free == {a \in Addrs : ~m.heap[a].live /\ a # avoid}
    IN  CHOOSE a \in free : \A b \in free : a <= b

\* the allocator has an address left to hand out
CanAlloc(m, avoid) == \E a \in Addrs : ~m.heap[a].live /\ a # avoid

\* alloc::alloc(layout): a new live block of the given capacity
Alloc(m, at, capacity, data) ==
    [m EXCEPT !.heap[at] = [live |-> TRUE, cap |-> capacity, data |-> data]]

\* alloc::dealloc(ptr, layout): the block must be live and the layout must be
\* the one it was allocated with; anything else is an invalid (double) free
Dealloc(m, ptr, capacity) ==
    IF ptr \in Addrs /\ m.heap[ptr].live /\ m.heap[ptr].cap = capacity
    THEN [m EXCEPT !.heap[ptr] = FreeBlock]
    ELSE [m EXCEPT !.badFree = TRUE]

\* the elements a buffer owner sees: data[0 .. len) of its block
Contents(m, v) ==
    IF IsBox(v) THEN (IF v.ptr \in Addrs THEN m.heap[v.ptr].data ELSE <<>>)
    ELSE IF v.cap = 0 \/ v.ptr \notin Addrs THEN <<>>
    ELSE SubSeq(m.heap[v.ptr].data, 1, v.len)

\* ---------------------------------------------------------------- std owners
\* Vec::new(): no allocation, dangling pointer
VecNew(elem) == [kind |-> "UniqueVec", elem |-> elem, pin |-> FALSE, ptr |-> Dangling, len |-> 0, cap |-> 0]

\* <Vec<T> as Drop>::drop: drop the elements, then free the buffer if there is one
DropUniqueVec(m, unique) ==
    IF unique.cap = 0 THEN m ELSE Dealloc(m, unique.ptr, unique.cap)

\* <Box<T> as Drop>::drop: drop the value, then free its block
DropUniqueBox(m, unique) == Dealloc(m, unique.ptr, 1)

\* String::into_bytes / String::from_utf8_unchecked: the same Vec<u8>, retyped
String_into_bytes(s)      == [s EXCEPT !.kind = "UniqueVec"]
from_utf8_unchecked(bytes) == [bytes EXCEPT !.kind = "UniqueString"]

\* ---------------------------------------------------------------- boxed.rs
AliasableBox_from_unique(unique) ==
    [kind |-> "AliasableBox", elem |-> unique.elem, pin |-> FALSE, ptr |-> unique.ptr, len |-> 0, cap |-> 0]

reclaim_as_unique_box(self) ==
    [kind |-> "UniqueBox", elem |-> self.elem, pin |-> FALSE, ptr |-> self.ptr, len |-> 0, cap |-> 0]

\* the handles whose destructor runs when AliasableBox::into_unique returns:
\* none, the argument is wrapped in ManuallyDrop
AliasableBox_into_unique_drops(aliasable) == <<>>

AliasableBox_into_unique(aliasable) == reclaim_as_unique_box(aliasable)

AliasableBox_drop(m, self) == DropUniqueBox(m, reclaim_as_unique_box(self))

\* ---------------------------------------------------------------- vec.rs
\* variants of from_unique that record the wrong parts
FromUniqueLenAsCap(unique) ==
    [kind |-> "AliasableVec", elem |-> unique.elem, pin |-> FALSE,
     ptr |-> unique.ptr, len |-> unique.len, cap |-> unique.len]
FromUniqueSwapped(unique) ==
    [kind |-> "AliasableVec", elem |-> unique.elem, pin |-> FALSE,
     ptr |-> unique.ptr, len |-> unique.cap, cap |-> unique.len]
\* ManuallyDrop::new(unique), unique.as_mut_ptr(), unique.len(), unique.capacity()
AliasableVec_from_unique(unique) ==
    [kind |-> "AliasableVec", elem |-> unique.elem, pin |-> FALSE,
     ptr |-> unique.ptr, len |-> unique.len, cap |-> unique.cap]

\* a variant that passes the length as the capacity
ReclaimLenAsCap(self) ==
    [kind |-> "UniqueVec", elem |-> self.elem, pin |-> FALSE,
     ptr |-> self.ptr, len |-> self.len, cap |-> self.len]
\* UniqueVec::from_raw_parts(self.ptr.as_ptr(), self.len, self.cap)
reclaim_as_unique_vec(self) ==
    [kind |-> "UniqueVec", elem |-> self.elem, pin |-> FALSE,
     ptr |-> self.ptr, len |-> self.len, cap |-> self.cap]

\* a variant without ManuallyDrop: the consumed handle is dropped on return
IntoUniqueDropsHandle(aliasable) == <<aliasable>>
\* the handles whose destructor runs when AliasableVec::into_unique returns:
\* none, the argument is wrapped in ManuallyDrop
AliasableVec_into_unique_drops(aliasable) == <<>>

AliasableVec_into_unique(aliasable) == reclaim_as_unique_vec(aliasable)

\* a variant of the destructor that reclaims nothing
DropForgets(m, self) == m
\* impl Drop for AliasableVec: let _vec = self.reclaim_as_unique_vec();
AliasableVec_drop(m, self) == DropUniqueVec(m, reclaim_as_unique_vec(self))

AliasableVec_default(elem) == AliasableVec_from_unique(VecNew(elem))

\* ---------------------------------------------------------------- string.rs
\* AliasableString(AliasableVec<u8>): the wrapped buffer and the wrapper
Inner(s)     == [s EXCEPT !.kind = "AliasableVec"]
AsString(v)  == [v EXCEPT !.kind = "AliasableString"]

\* a variant that gives up the spare capacity
IntoBytesShrinks(self) == [Inner(self) EXCEPT !.cap = self.len]
\* AliasableString::into_bytes: self.0
AliasableString_into_bytes(self) == Inner(self)

AliasableString_from_unique(s) == AsString(AliasableVec_from_unique(String_into_bytes(s)))

\* a variant that returns the bytes without making a String of them
IntoUniqueAsBytes(s) == AliasableVec_into_unique(AliasableString_into_bytes(s))
AliasableString_into_unique(s) == from_utf8_unchecked(AliasableVec_into_unique(AliasableString_into_bytes(s)))

\* ---------------------------------------------------------------- destructors
\* the destructor of whatever a place holds
DropValue(m, v) ==
    CASE v.kind = "UniqueBox"       -> DropUniqueBox(m, v)
      [] v.kind = "AliasableBox"    -> AliasableBox_drop(m, v)
      [] v.kind = "UniqueVec"       -> DropUniqueVec(m, v)
      [] v.kind = "UniqueString"    -> DropUniqueVec(m, String_into_bytes(v))
      [] v.kind = "AliasableVec"    -> AliasableVec_drop(m, v)
      [] v.kind = "AliasableString" -> AliasableVec_drop(m, Inner(v))
      [] OTHER                      -> m

RECURSIVE RunDrops(_, _)
RunDrops(m, vs) ==
    IF vs = <<>> THEN m ELSE RunDrops(DropValue(m, Head(vs)), Tail(vs))


\* ---------------------------------------------------------------- state
\* rt[p] remembers, for the owner in place p, the unique owner it was converted
\* from (and what that owner held) for as long as the owner takes part in
\* nothing but conversions, or that a handle was destroyed there
NoTrip  == [u |-> NoValue, data |-> <<>>]
Dropped == [u |-> [NoValue EXCEPT !.kind = "Dropped"], data |-> <<>>]

\* the clone_from call record when no call is running
Idle == [pc |-> "idle", self |-> "", source |-> "", guard1 |-> NoValue, mid |-> 0, i |-> 0,
         panicking |-> FALSE, allocCalls |-> 0,
         before |-> [v |-> NoValue, data |-> <<>>, src |-> <<>>]]

Init ==
    /\ val = [p \in Places |-> NoValue]
    /\ mem = InitMem
    /\ cf = Idle
    /\ rt = [p \in Places |-> NoTrip]

\* pin wrappers: Pin::into_inner_unchecked and Pin::new_unchecked
PinIntoInnerUnchecked(pin) == [pin EXCEPT !.pin = FALSE]
PinNewUnchecked(pointer)   == [pointer EXCEPT !.pin = TRUE]

\* ---------------------------------------------------------------- unique owners
\* Box::new(e)
NewBox(p, e) ==
    /\ cf.pc = "idle" /\ val[p] = NoValue /\ CanAlloc(mem, Dangling)
    /\ LET at == FreeAddr(mem, Dangling)
       IN  /\ mem' = Alloc(mem, at, 1, <<e>>)
           /\ val' = [val EXCEPT ![p] = [kind |-> "UniqueBox", elem |-> "T", pin |-> FALSE, ptr |-> at,
                                         len |-> 0, cap |-> 0]]
    /\ rt' = [rt EXCEPT ![p] = NoTrip]
    /\ UNCHANGED cf

\* a Vec or String built the ordinary way (vec![..], with_capacity + push,
\* String::from): capacity 0 means no allocation at all
NewBuffer(p, kind, elem, data, capacity) ==
    /\ cf.pc = "idle" /\ val[p] = NoValue
    /\ capacity >= Len(data)
    /\ IF capacity = 0
       THEN /\ val' = [val EXCEPT ![p] = [VecNew(elem) EXCEPT !.kind = kind]]
            /\ UNCHANGED mem
       ELSE /\ CanAlloc(mem, Dangling)
            /\ LET at == FreeAddr(mem, Dangling)
               IN  /\ mem' = Alloc(mem, at, capacity, data)
                   /\ val' = [val EXCEPT ![p] = [kind |-> kind, elem |-> elem, pin |-> FALSE, ptr |-> at,
                                                 len |-> Len(data), cap |-> capacity]]
    /\ rt' = [rt EXCEPT ![p] = NoTrip]
    /\ UNCHANGED cf

NewVec(p) ==
    \E data \in SeqsUpTo(Elems, MaxLen), capacity \in 0..MaxCap :
        NewBuffer(p, "UniqueVec", "T", data, capacity)

NewString(p) ==
    \E data \in {b \in SeqsUpTo(Bytes, MaxLen) : IsUtf8(b)}, capacity \in 0..MaxCap :
        NewBuffer(p, "UniqueString", "u8", data, capacity)

\* Pin::new(unique) / Box::pin
PinNew(p) ==
    /\ cf.pc = "idle" /\ IsUnique(val[p]) /\ ~val[p].pin
    /\ val' = [val EXCEPT ![p] = PinNewUnchecked(@)]
    /\ rt' = [rt EXCEPT ![p] = NoTrip]
    /\ UNCHANGED <<mem, cf>>

\* the destructor of a unique owner (scope exit)
DropUnique(p) ==
    /\ cf.pc = "idle" /\ IsUnique(val[p])
    /\ mem' = DropValue(mem, val[p])
    /\ val' = [val EXCEPT ![p] = NoValue]
    /\ rt' = [rt EXCEPT ![p] = NoTrip]
    /\ UNCHANGED cf

\* ---------------------------------------------------------------- conversions
\* a conversion of the owner in place p: the place holds the result, the
\* destructors of the listed values run, and the trip record is updated
Convert(p, result, drops, trip) ==
    /\ val' = [val EXCEPT ![p] = result]
    /\ mem' = RunDrops(mem, drops)
    /\ rt' = [rt EXCEPT ![p] = trip]
    /\ UNCHANGED cf

Snapshot(p) == [u |-> val[p], data |-> Contents(mem, val[p])]

BoxFromUnique(p) ==
    /\ cf.pc = "idle" /\ val[p].kind = "UniqueBox" /\ ~val[p].pin
    /\ Convert(p, AliasableBox_from_unique(val[p]), <<>>, Snapshot(p))

BoxIntoUnique(p) ==
    /\ cf.pc = "idle" /\ val[p].kind = "AliasableBox" /\ ~val[p].pin
    /\ Convert(p, AliasableBox_into_unique(val[p]), AliasableBox_into_unique_drops(val[p]), rt[p])

BoxFromUniquePin(p) ==
    /\ cf.pc = "idle" /\ val[p].kind = "UniqueBox" /\ val[p].pin
    /\ LET unique == PinIntoInnerUnchecked(val[p])
       IN  Convert(p, PinNewUnchecked(AliasableBox_from_unique(unique)), <<>>, Snapshot(p))

BoxIntoUniquePin(p) ==
    /\ cf.pc = "idle" /\ val[p].kind = "AliasableBox" /\ val[p].pin
    /\ LET aliasable == PinIntoInnerUnchecked(val[p])
       IN  Convert(p, PinNewUnchecked(AliasableBox_into_unique(aliasable)),
                   AliasableBox_into_unique_drops(aliasable), rt[p])

VecFromUnique(p) ==
    /\ cf.pc = "idle" /\ val[p].kind = "UniqueVec" /\ ~val[p].pin
    /\ Convert(p, AliasableVec_from_unique(val[p]), <<>>, Snapshot(p))

VecIntoUnique(p) ==
    /\ cf.pc = "idle" /\ val[p].kind = "AliasableVec" /\ ~val[p].pin
    /\ Convert(p, AliasableVec_into_unique(val[p]), AliasableVec_into_unique_drops(val[p]), rt[p])

VecFromUniquePin(p) ==
    /\ cf.pc = "idle" /\ val[p].kind = "UniqueVec" /\ val[p].pin
    /\ LET unique == PinIntoInnerUnchecked(val[p])
       IN  Convert(p, PinNewUnchecked(AliasableVec_from_unique(unique)), <<>>, Snapshot(p))

VecIntoUniquePin(p) ==
    /\ cf.pc = "idle" /\ val[p].kind = "AliasableVec" /\ val[p].pin
    /\ LET aliasable == PinIntoInnerUnchecked(val[p])
       IN  Convert(p, PinNewUnchecked(AliasableVec_into_unique(aliasable)),
                   AliasableVec_into_unique_drops(aliasable), rt[p])

StringFromUnique(p) ==
    /\ cf.pc = "idle" /\ val[p].kind = "UniqueString" /\ ~val[p].pin
    /\ Convert(p, AliasableString_from_unique(val[p]), <<>>, Snapshot(p))

StringIntoUnique(p) ==
    /\ cf.pc = "idle" /\ val[p].kind = "AliasableString" /\ ~val[p].pin
    /\ Convert(p, AliasableString_into_unique(val[p]),
               AliasableVec_into_unique_drops(AliasableString_into_bytes(val[p])), rt[p])

StringFromUniquePin(p) ==
    /\ cf.pc = "idle" /\ val[p].kind = "UniqueString" /\ val[p].pin
    /\ LET unique == PinIntoInnerUnchecked(val[p])
       IN  Convert(p, PinNewUnchecked(AliasableString_from_unique(unique)), <<>>, Snapshot(p))

StringIntoUniquePin(p) ==
    /\ cf.pc = "idle" /\ val[p].kind = "AliasableString" /\ val[p].pin
    /\ LET aliasable == PinIntoInnerUnchecked(val[p])
       IN  Convert(p, PinNewUnchecked(AliasableString_into_unique(aliasable)),
                   AliasableVec_into_unique_drops(AliasableString_into_bytes(aliasable)), rt[p])

\* AliasableString::into_bytes: the wrapper is consumed, its field moved out
StringIntoBytes(p) ==
    /\ cf.pc = "idle" /\ val[p].kind = "AliasableString" /\ ~val[p].pin
    /\ Convert(p, AliasableString_into_bytes(val[p]), <<>>, NoTrip)

\* ---------------------------------------------------------------- handles
\* String::new(): an empty Vec<u8> inside
StringNew == from_utf8_unchecked(VecNew("u8"))

\* impl Default for AliasableString: Self::from_unique(UniqueString::default())
AliasableString_default == AliasableString_from_unique(StringNew)

\* T::default()
ElemDefault == 1

\* Box::default(): Box::new(T::default()), in the block at address at
BoxNew(at) == [kind |-> "UniqueBox", elem |-> "T", pin |-> FALSE, ptr |-> at, len |-> 0, cap |-> 0]

\* a variant that wraps nothing
BoxDefaultDangling(at) == AliasableBox_from_unique(BoxNew(Dangling))
\* impl Default for AliasableBox: Self::from_unique(UniqueBox::default())
AliasableBox_default(at) == AliasableBox_from_unique(BoxNew(at))

\* the record of a handle made by default(): the unique default value it wraps
MadeByDefault(unique, data) == [u |-> unique, data |-> data, default |-> TRUE]

\* AliasableVec::default() / AliasableString::default()
VecDefault(p) ==
    /\ cf.pc = "idle" /\ val[p] = NoValue
    /\ \/ Convert(p, AliasableVec_default("T"), <<>>, MadeByDefault(VecNew("T"), <<>>))
       \/ Convert(p, AliasableString_default, <<>>, MadeByDefault(StringNew, <<>>))

\* AliasableBox::default()
BoxDefault(p) ==
    /\ cf.pc = "idle" /\ val[p] = NoValue /\ CanAlloc(mem, Dangling)
    /\ LET at == FreeAddr(mem, Dangling)
       IN  /\ mem' = Alloc(mem, at, 1, <<ElemDefault>>)
           /\ val' = [val EXCEPT ![p] = AliasableBox_default(at)]
           /\ rt' = [rt EXCEPT ![p] = MadeByDefault(BoxNew(at), <<ElemDefault>>)]
    /\ UNCHANGED cf

\* impl Drop for AliasableBox
BoxDrop(p) ==
    /\ cf.pc = "idle" /\ val[p].kind = "AliasableBox"
    /\ Convert(p, NoValue, <<val[p]>>, Dropped)

\* impl Drop for AliasableVec, also as the only field of an AliasableString
VecDrop(p) ==
    /\ cf.pc = "idle" /\ val[p].kind \in {"AliasableVec", "AliasableString"}
    /\ Convert(p, NoValue, <<val[p]>>, Dropped)


\* ---------------------------------------------------------------- std Vec
\* alloc::realloc(ptr, layout, new_size): the old block is given up and a
\* block of the new capacity holding the same elements is returned
Realloc(m, ptr, capacity, at, newcap) ==
    IF ptr \in Addrs /\ m.heap[ptr].live /\ m.heap[ptr].cap = capacity
    THEN [m EXCEPT !.heap = [@ EXCEPT ![ptr] = FreeBlock,
                                      ![at] = [live |-> TRUE, cap |-> newcap,
                                               data |-> m.heap[ptr].data]]]
    ELSE [m EXCEPT !.badFree = TRUE]

\* a variant whose result is always the same value
ElemCloneFirst(e) == 1
\* T::clone: an equal value
ElemClone(e) == e

\* a variant that never truncates
TruncateNothing(m, v, n) == [m |-> m, v |-> v]
\* Vec::truncate(len): no effect when len is not shorter, else the tail is dropped
VecTruncate(m, v, n) ==
    IF n > v.len THEN [m |-> m, v |-> v]
    ELSE [m |-> IF v.ptr \in Addrs
                THEN [m EXCEPT !.heap[v.ptr].data = SubSeq(@, 1, n)]
                ELSE m,
          v |-> [v EXCEPT !.len = n]]

\* a variant whose second half starts at the front again
SplitAtHead(slice, mid) ==
    [init |-> SubSeq(slice, 1, mid), tail |-> SubSeq(slice, 1, Len(slice) - mid)]
\* slice::split_at(mid)
SplitAt(slice, mid) ==
    [init |-> SubSeq(slice, 1, mid), tail |-> SubSeq(slice, mid + 1, Len(slice))]

\* ---------------------------------------------------------------- Clone
\* AliasableVec::clone / AliasableString::clone: (**self).to_vec() allocates
\* exactly len elements (nothing for an empty slice) and clones into it; the
\* partly filled Vec is dropped when an element's clone panics
VecClone(p, q) ==
    /\ cf.pc = "idle" /\ val[p].kind \in {"AliasableVec", "AliasableString"} /\ ~val[p].pin
    /\ val[q] = NoValue
    /\ LET n    == val[p].len
           data == Contents(mem, val[p])
           at   == FreeAddr(mem, Dangling)
       IN  IF n = 0
           THEN /\ val' = [val EXCEPT ![q] = [AliasableVec_from_unique(VecNew(val[p].elem))
                                              EXCEPT !.kind = val[p].kind]]
                /\ UNCHANGED mem
           ELSE /\ CanAlloc(mem, Dangling)
                /\ \E panics \in (IF val[p].elem = "T" THEN BOOLEAN ELSE {FALSE}) :
                      IF panics
                      THEN /\ mem' = Dealloc(Alloc(mem, at, n, <<>>), at, n)
                           /\ UNCHANGED val
                      ELSE /\ mem' = Alloc(mem, at, n, [k \in 1..n |-> ElemClone(data[k])])
                           /\ val' = [val EXCEPT ![q] =
                                  [AliasableVec_from_unique(
                                       [kind |-> "UniqueVec", elem |-> val[p].elem,
                                        pin |-> FALSE, ptr |-> at,
                                        len |-> n, cap |-> n])
                                   EXCEPT !.kind = val[p].kind]]
    /\ rt' = [rt EXCEPT ![q] = NoTrip]
    /\ UNCHANGED cf

\* AliasableBox::clone: Box::new((**self).clone())
BoxClone(p, q) ==
    /\ cf.pc = "idle" /\ val[p].kind = "AliasableBox" /\ ~val[p].pin
    /\ val[q] = NoValue
    /\ CanAlloc(mem, Dangling)
    /\ LET at == FreeAddr(mem, Dangling)
           e  == Contents(mem, val[p])[1]
       IN  /\ mem' = Alloc(mem, at, 1, <<ElemClone(e)>>)
           /\ val' = [val EXCEPT ![q] = AliasableBox_from_unique(
                          [kind |-> "UniqueBox", elem |-> "T", pin |-> FALSE, ptr |-> at, len |-> 0, cap |-> 0])]
    /\ rt' = [rt EXCEPT ![q] = NoTrip]
    /\ UNCHANGED cf

\* AliasableBox::clone_from: the value is cloned in place, the block is kept
BoxCloneFrom(p, q) ==
    /\ cf.pc = "idle" /\ val[p].kind = "AliasableBox" /\ val[q].kind = "AliasableBox"
    /\ p # q /\ ~val[p].pin /\ ~val[q].pin
    /\ mem' = [mem EXCEPT !.heap[val[p].ptr].data = <<ElemClone(Contents(mem, val[q])[1])>>]
    /\ rt' = [rt EXCEPT ![p] = NoTrip]
    /\ UNCHANGED <<val, cf>>

\* ---------------------------------------------------------------- clone_from
\* a variant of the take that leaves the handle in place
MemTakeCopy(self) == self
\* what mem::take(self) leaves behind in *self
MemTake(self) == AliasableVec_default(self.elem)

\* let taken = Self::into_unique(mem::take(self)); let mut guard = Guard(self, taken);
CloneFromBegin(r, s) ==
    /\ cf.pc = "idle" /\ r # s
    /\ ~val[r].pin /\ ~val[s].pin
    /\ LET self  == Inner(val[r])
           taken == AliasableVec_into_unique(self)
       IN  /\ val' = [val EXCEPT ![r] = [MemTake(self) EXCEPT !.kind = val[r].kind]]
           /\ mem' = RunDrops(mem, AliasableVec_into_unique_drops(self))
           /\ cf' = [Idle EXCEPT !.pc = "truncate", !.self = r, !.source = s, !.guard1 = taken,
                                 !.before = [v |-> self, data |-> Contents(mem, self),
                                             src |-> Contents(mem, val[s])]]
    /\ rt' = [rt EXCEPT ![r] = NoTrip, ![s] = NoTrip]

VecCloneFrom(r, s) ==
    /\ val[r].kind = "AliasableVec" /\ val[s].kind = "AliasableVec"
    /\ val[r].elem = val[s].elem
    /\ CloneFromBegin(r, s)

\* AliasableString::clone_from: self.0.clone_from(&source.0)
StringCloneFrom(r, s) ==
    /\ val[r].kind = "AliasableString" /\ val[s].kind = "AliasableString"
    /\ CloneFromBegin(r, s)

Source == Contents(mem, val[cf.source])

\* a variant that splits the source at its own length instead of the buffer's
TruncateSplitsAtSourceLen ==
    /\ cf.pc = "truncate"
    /\ LET t   == VecTruncate(mem, cf.guard1, val[cf.source].len)
           mid == val[cf.source].len
       IN  /\ mem' = t.m
           /\ cf' = [cf EXCEPT !.guard1 = t.v, !.mid = mid, !.i = 0,
                               !.pc = IF mid > 0 THEN "clone_from_slice" ELSE "reserve"]
    /\ UNCHANGED <<val, rt>>
\* guard.1.truncate(source.len); let (init, tail) = source.split_at(guard.1.len());
Truncate ==
    /\ cf.pc = "truncate"
    /\ LET t   == VecTruncate(mem, cf.guard1, val[cf.source].len)
           mid == t.v.len
       IN  /\ mem' = t.m
           /\ cf' = IF mid > val[cf.source].len
                    THEN [cf EXCEPT !.guard1 = t.v, !.pc = "guard_drop", !.panicking = TRUE]
                    ELSE [cf EXCEPT !.guard1 = t.v, !.mid = mid, !.i = 0,
                                    !.pc = IF mid > 0 THEN "clone_from_slice" ELSE "reserve"]
    /\ UNCHANGED <<val, rt>>

\* guard.1.clone_from_slice(init): element i of the buffer is cloned from init[i]
CloneFromSliceStep ==
    /\ cf.pc = "clone_from_slice"
    /\ LET init == SplitAt(Source, cf.mid).init
           k    == cf.i + 1
       IN  /\ mem' = [mem EXCEPT !.heap[cf.guard1.ptr].data[k] = ElemClone(init[k])]
           /\ cf' = [cf EXCEPT !.i = k, !.pc = IF k = cf.mid THEN "reserve" ELSE @]
    /\ UNCHANGED <<val, rt>>

\* a variant of reserve that moves the buffer to a new block every time
ReserveMoves ==
    /\ cf.pc = "reserve"
    /\ LET g          == cf.guard1
           additional == Len(SplitAt(Source, cf.mid).tail)
           next       == IF additional > 0 THEN "extend_from_slice" ELSE "guard_drop"
           required   == IF g.len + additional > 0 THEN g.len + additional ELSE 1
       IN  \E newcap \in (IF required > g.cap THEN required ELSE g.cap)..MaxCap :
              /\ CanAlloc(mem, g.ptr)
              /\ LET at == FreeAddr(mem, g.ptr)
                 IN  /\ mem' = IF g.cap = 0 THEN Alloc(mem, at, newcap, <<>>)
                               ELSE Realloc(mem, g.ptr, g.cap, at, newcap)
                     /\ cf' = [cf EXCEPT !.pc = next, !.i = 0, !.allocCalls = @ + 1,
                                         !.guard1 = [g EXCEPT !.ptr = at, !.cap = newcap]]
    /\ UNCHANGED <<val, rt>>
\* guard.1.extend_from_slice(tail), first half: reserve(tail.len()).  The
\* buffer grows only when the spare capacity is too small; the new capacity
\* is whatever the growth policy picks, at least what is required
Reserve ==
    /\ cf.pc = "reserve"
    /\ LET g          == cf.guard1
           additional == Len(SplitAt(Source, cf.mid).tail)
           next       == IF additional > 0 THEN "extend_from_slice" ELSE "guard_drop"
       IN  IF g.cap - g.len >= additional
           THEN /\ cf' = [cf EXCEPT !.pc = next, !.i = 0]
                /\ UNCHANGED mem
           ELSE \E newcap \in (g.len + additional)..MaxCap, inplace \in BOOLEAN :
                   /\ CanAlloc(mem, g.ptr)
                   /\ LET at == IF inplace /\ g.cap > 0 THEN g.ptr ELSE FreeAddr(mem, g.ptr)
                      IN  /\ mem' = IF g.cap = 0 THEN Alloc(mem, at, newcap, <<>>)
                                    ELSE Realloc(mem, g.ptr, g.cap, at, newcap)
                          /\ cf' = [cf EXCEPT !.pc = next, !.i = 0, !.allocCalls = @ + 1,
                                              !.guard1 = [g EXCEPT !.ptr = at, !.cap = newcap]]
    /\ UNCHANGED <<val, rt>>

\* guard.1.extend_from_slice(tail), second half: one cloned element is written
\* behind the last one and the length is advanced
ExtendFromSliceStep ==
    /\ cf.pc = "extend_from_slice"
    /\ LET tail == SplitAt(Source, cf.mid).tail
           k    == cf.i + 1
           g    == cf.guard1
       IN  /\ mem' = [mem EXCEPT !.heap[g.ptr].data = Append(@, ElemClone(tail[k]))]
           /\ cf' = [cf EXCEPT !.i = k, !.guard1 = [g EXCEPT !.len = @ + 1],
                               !.pc = IF k = Len(tail) THEN "guard_drop" ELSE @]
    /\ UNCHANGED <<val, rt>>

\* T::clone panics (a generic T may, u8 does not): the call unwinds
ElementClonePanics ==
    /\ cf.pc \in {"clone_from_slice", "extend_from_slice"}
    /\ val[cf.self].elem = "T"
    /\ cf' = [cf EXCEPT !.pc = "guard_drop", !.panicking = TRUE]
    /\ UNCHANGED <<val, mem, rt>>

\* variants of the guard: one puts back the handle as it was before the
\* call, one puts nothing back
GuardRestoreStale(guard1) == cf.before.v
GuardRestoreNothing(guard1) == AliasableVec_default(guard1.elem)
\* what Guard::drop stores into *self.0
GuardRestore(guard1) == AliasableVec_from_unique(guard1)

\* impl Drop for Guard, on return and on unwind alike:
\* *self.0 = AliasableVec::from_unique(mem::take(&mut self.1));
\* the assignment drops the value *self.0 held, the emptied self.1 is dropped after
GuardDrop ==
    /\ cf.pc = "guard_drop"
    /\ LET r == cf.self
       IN  /\ val' = [val EXCEPT ![r] = [GuardRestore(cf.guard1) EXCEPT !.kind = val[r].kind]]
           /\ mem' = DropUniqueVec(AliasableVec_drop(mem, Inner(val[r])), VecNew(val[r].elem))
    /\ cf' = [cf EXCEPT !.guard1 = NoValue,
                        !.pc = IF cf.panicking THEN "unwound" ELSE "returned"]
    /\ UNCHANGED rt

\* the caller goes on: after the return, or after catching the unwind
CloneFromReturn ==
    /\ cf.pc \in {"returned", "unwound"}
    /\ cf' = Idle
    /\ UNCHANGED <<val, mem, rt>>

\* ---------------------------------------------------------------- views
\* what reading a slot that holds no initialised element may give
Uninit == -1

\* slice::from_raw_parts(ptr, len): the address and the len slots behind it
FromRawParts(m, ptr, len) ==
    [addr  |-> ptr,
     slice |-> [k \in 1..len |->
                   IF ptr \in Addrs /\ k <= Len(m.heap[ptr].data)
                   THEN m.heap[ptr].data[k] ELSE Uninit]]

\* a variant that views the whole capacity
DerefWholeCapacity(m, self) == FromRawParts(m, self.ptr, self.cap)
\* impl Deref for AliasableVec: slice::from_raw_parts(self.ptr.as_ptr(), self.len)
AliasableVec_deref(m, self) == FromRawParts(m, self.ptr, self.len)

\* impl DerefMut for AliasableVec: slice::from_raw_parts_mut(self.ptr.as_ptr(), self.len)
AliasableVec_deref_mut(m, self) == FromRawParts(m, self.ptr, self.len)

\* impl AsRef / AsMut for AliasableVec: &*self, &mut *self
AliasableVec_as_ref(m, self) == AliasableVec_deref(m, self)
AliasableVec_as_mut(m, self) == AliasableVec_deref_mut(m, self)

\* impl Deref / DerefMut / AsRef / AsMut for AliasableBox: self.0.as_ref(), self.0.as_mut()
AliasableBox_deref(m, self)     == FromRawParts(m, self.ptr, 1)
AliasableBox_deref_mut(m, self) == FromRawParts(m, self.ptr, 1)
AliasableBox_as_ref(m, self)    == AliasableBox_deref(m, self)
AliasableBox_as_mut(m, self)    == AliasableBox_deref_mut(m, self)

\* impl Deref / DerefMut / AsRef / AsMut for AliasableString:
\* str::from_utf8_unchecked(&*self.0), str::from_utf8_unchecked_mut(&mut *self.0)
AliasableString_deref(m, self)     == AliasableVec_deref(m, Inner(self))
AliasableString_deref_mut(m, self) == AliasableVec_deref_mut(m, Inner(self))
AliasableString_as_ref(m, self)    == AliasableString_deref(m, self)
AliasableString_as_mut(m, self)    == AliasableString_deref_mut(m, self)

\* the four views of a handle, by kind
Deref(m, v) ==
    CASE v.kind = "AliasableBox"    -> AliasableBox_deref(m, v)
      [] v.kind = "AliasableString" -> AliasableString_deref(m, v)
      [] OTHER                      -> AliasableVec_deref(m, v)
DerefMut(m, v) ==
    CASE v.kind = "AliasableBox"    -> AliasableBox_deref_mut(m, v)
      [] v.kind = "AliasableString" -> AliasableString_deref_mut(m, v)
      [] OTHER                      -> AliasableVec_deref_mut(m, v)
AsRef(m, v) ==
    CASE v.kind = "AliasableBox"    -> AliasableBox_as_ref(m, v)
      [] v.kind = "AliasableString" -> AliasableString_as_ref(m, v)
      [] OTHER                      -> AliasableVec_as_ref(m, v)
AsMut(m, v) ==
    CASE v.kind = "AliasableBox"    -> AliasableBox_as_mut(m, v)
      [] v.kind = "AliasableString" -> AliasableString_as_mut(m, v)
      [] OTHER                      -> AliasableVec_as_mut(m, v)

\* a client stores e through the slice deref_mut gives: (*v)[i] = e
VecDerefMutWrite(p) ==
    /\ cf.pc = "idle" /\ val[p].kind = "AliasableVec" /\ val[p].elem = "T" /\ ~val[p].pin
    /\ \E i \in 1..Len(AliasableVec_deref_mut(mem, val[p]).slice), e \in Elems :
          mem' = [mem EXCEPT !.heap[AliasableVec_deref_mut(mem, val[p]).addr].data[i] = e]
    /\ rt' = [rt EXCEPT ![p] = NoTrip]
    /\ UNCHANGED <<val, cf>>

\* a client stores e through the reference deref_mut gives: *b = e
BoxDerefMutWrite(p) ==
    /\ cf.pc = "idle" /\ val[p].kind = "AliasableBox" /\ ~val[p].pin
    /\ \E e \in Elems :
          mem' = [mem EXCEPT !.heap[AliasableBox_deref_mut(mem, val[p]).addr].data = <<e>>]
    /\ rt' = [rt EXCEPT ![p] = NoTrip]
    /\ UNCHANGED <<val, cf>>

\* ---------------------------------------------------------------- specification
Next ==
    \/ \E p \in Places, e \in Elems : NewBox(p, e)
    \/ \E p \in Places : NewVec(p)
    \/ \E p \in Places : NewString(p)
    \/ \E p \in Places : PinNew(p)
    \/ \E p \in Places : DropUnique(p)
    \/ \E p \in Places : BoxFromUnique(p)
    \/ \E p \in Places : BoxIntoUnique(p)
    \/ \E p \in Places : BoxFromUniquePin(p)
    \/ \E p \in Places : BoxIntoUniquePin(p)
    \/ \E p \in Places : VecFromUnique(p)
    \/ \E p \in Places : VecIntoUnique(p)
    \/ \E p \in Places : VecFromUniquePin(p)
    \/ \E p \in Places : VecIntoUniquePin(p)
    \/ \E p \in Places : StringFromUnique(p)
    \/ \E p \in Places : StringIntoUnique(p)
    \/ \E p \in Places : StringFromUniquePin(p)
    \/ \E p \in Places : StringIntoUniquePin(p)
    \/ \E p \in Places : StringIntoBytes(p)
    \/ \E p \in Places : BoxDrop(p)
    \/ \E p \in Places : VecDrop(p)
    \/ \E p, q \in Places : VecClone(p, q)
    \/ \E p, q \in Places : BoxClone(p, q)
    \/ \E p, q \in Places : BoxCloneFrom(p, q)
    \/ \E p \in Places : VecDefault(p)
    \/ \E p \in Places : BoxDefault(p)
    \/ \E p \in Places : VecDerefMutWrite(p)
    \/ \E p \in Places : BoxDerefMutWrite(p)
    \/ \E r, s \in Places : VecCloneFrom(r, s)
    \/ \E r, s \in Places : StringCloneFrom(r, s)
    \/ Truncate
    \/ CloneFromSliceStep
    \/ Reserve
    \/ ExtendFromSliceStep
    \/ ElementClonePanics
    \/ GuardDrop
    \/ CloneFromReturn

Spec == Init /\ [][Next]_vars


\* ---------------------------------------------------------------- mut_ref.rs
\* A second program: every address holds a local variable of type T, and a
\* place is a variable of reference type that borrows one of them.
\* a place that holds no borrow at the moment
NoBorrow == [NoValue EXCEPT !.kind = "NoBorrow"]

\* a variant that points one address further
MutFromUniqueOffByOne(ptr) ==
    [kind |-> "AliasableMut", elem |-> ptr.elem, pin |-> FALSE,
     ptr |-> (ptr.ptr % Cardinality(Addrs)) + 1, len |-> 0, cap |-> 0]
\* AliasableMut::from_unique: Self { inner: NonNull::from(ptr), .. }
AliasableMut_from_unique(ptr) ==
    [kind |-> "AliasableMut", elem |-> ptr.elem, pin |-> FALSE, ptr |-> ptr.ptr, len |-> 0, cap |-> 0]

\* AliasableMut::into_unique: aliasable.inner.as_mut()
AliasableMut_into_unique(aliasable) ==
    [kind |-> "UniqueMut", elem |-> aliasable.elem, pin |-> FALSE, ptr |-> aliasable.ptr,
     len |-> 0, cap |-> 0]

\* the values dropped when AliasableMut::into_unique returns: its argument,
\* which has no destructor
AliasableMut_into_unique_drops(aliasable) == <<aliasable>>

\* impl Deref / DerefMut / AsRef / AsMut for AliasableMut: self.inner.as_ref(), self.inner.as_mut()
AliasableMut_deref(m, self)     == FromRawParts(m, self.ptr, 1)
AliasableMut_deref_mut(m, self) == FromRawParts(m, self.ptr, 1)
AliasableMut_as_ref(m, self)    == AliasableMut_deref(m, self)
AliasableMut_as_mut(m, self)    == AliasableMut_deref_mut(m, self)

\* let mut data = e; for every address
SlotInit ==
    /\ val = [p \in Places |-> NoBorrow]
    /\ mem \in {[heap |-> h, badFree |-> FALSE] :
                   h \in [Addrs -> {[live |-> TRUE, cap |-> 1, data |-> <<e>>] : e \in Elems}]}
    /\ cf = Idle
    /\ rt = [p \in Places |-> NoTrip]

\* &mut data: an exclusive borrow of a local nobody else borrows
Borrow(p, a) ==
    /\ val[p] = NoBorrow
    /\ \A q \in Places : val[q] = NoBorrow \/ val[q].ptr # a
    /\ val' = [val EXCEPT ![p] = [kind |-> "UniqueMut", elem |-> "T", pin |-> FALSE, ptr |-> a,
                                  len |-> 0, cap |-> 0]]
    /\ rt' = [rt EXCEPT ![p] = NoTrip]
    /\ UNCHANGED <<mem, cf>>

\* Pin::new_unchecked(&mut data)
MutPin(p) ==
    /\ val[p].kind = "UniqueMut" /\ ~val[p].pin
    /\ val' = [val EXCEPT ![p] = PinNewUnchecked(@)]
    /\ rt' = [rt EXCEPT ![p] = NoTrip]
    /\ UNCHANGED <<mem, cf>>

\* the referent as the borrow in place p sees it
Referent(p) == [u |-> val[p], data |-> mem.heap[val[p].ptr].data]

MutFromUnique(p) ==
    /\ val[p].kind = "UniqueMut" /\ ~val[p].pin
    /\ Convert(p, AliasableMut_from_unique(val[p]), <<>>, Referent(p))

MutIntoUnique(p) ==
    /\ val[p].kind = "AliasableMut" /\ ~val[p].pin
    /\ Convert(p, AliasableMut_into_unique(val[p]), AliasableMut_into_unique_drops(val[p]), rt[p])

MutFromUniquePin(p) ==
    /\ val[p].kind = "UniqueMut" /\ val[p].pin
    /\ LET unique == PinIntoInnerUnchecked(val[p])
       IN  Convert(p, PinNewUnchecked(AliasableMut_from_unique(unique)), <<>>, Referent(p))

MutIntoUniquePin(p) ==
    /\ val[p].kind = "AliasableMut" /\ val[p].pin
    /\ LET aliasable == PinIntoInnerUnchecked(val[p])
       IN  Convert(p, PinNewUnchecked(AliasableMut_into_unique(aliasable)),
                   AliasableMut_into_unique_drops(aliasable), rt[p])

\* a client stores e through the reference deref_mut gives: *slot = e
MutDerefMutWrite(p) ==
    /\ val[p].kind = "AliasableMut" /\ ~val[p].pin
    /\ \E e \in Elems :
          /\ mem' = [mem EXCEPT !.heap[AliasableMut_deref_mut(mem, val[p]).addr].data = <<e>>]
          /\ rt' = [rt EXCEPT ![p] = [u |-> @.u, data |-> <<e>>, written |-> TRUE]]
    /\ UNCHANGED <<val, cf>>

\* the borrow or the slot goes out of scope: neither has a destructor
MutDrop(p) ==
    /\ val[p].kind \in {"UniqueMut", "AliasableMut"}
    /\ Convert(p, NoBorrow, <<val[p]>>, NoTrip)

SlotNext ==
    \/ \E p \in Places, a \in Addrs : Borrow(p, a)
    \/ \E p \in Places : MutPin(p)
    \/ \E p \in Places : MutFromUnique(p)
    \/ \E p \in Places : MutIntoUnique(p)
    \/ \E p \in Places : MutFromUniquePin(p)
    \/ \E p \in Places : MutIntoUniquePin(p)
    \/ \E p \in Places : MutDerefMutWrite(p)
    \/ \E p \in Places : MutDrop(p)

\* the program of borrows and slots alone
SlotSpec == SlotInit /\ [][SlotNext]_vars

\* either program: owners of allocations, or borrows of locals
FullInit == Init \/ SlotInit
FullNext == Next \/ SlotNext
FullSpec == FullInit /\ [][FullNext]_vars


\* ---------------------------------------------------------------- Hash
\* what T::hash feeds the hasher for an element
ElemHash(e) == <<e>>

\* hash_slice: the elements one after the other
RECURSIVE HashSlice(_)
HashSlice(slice) ==
    IF Len(slice) = 0 THEN <<>> ELSE ElemHash(Head(slice)) \o HashSlice(Tail(slice))

\* <[T] as Hash>::hash: the length prefix, then the elements
SliceHash(slice) == <<Len(slice)>> \o HashSlice(slice)

\* <str as Hash>::hash: the bytes, then the terminator 0xff
StrHash(bytes) == bytes \o <<255>>

\* impl Hash for AliasableVec: (**self).hash(state)
AliasableVec_hash(m, self) == SliceHash(AliasableVec_deref(m, self).slice)

\* what #[derive(Hash)] would feed: the hash of the field, a byte slice
DerivedHash(m, self) == AliasableVec_hash(m, Inner(self))
\* impl Hash for AliasableString: (**self).hash(hasher)
AliasableString_hash(m, self) == StrHash(AliasableString_deref(m, self).slice)

\* impl Hash for AliasableBox / AliasableMut: (**self).hash(state)
AliasableBox_hash(m, self) == ElemHash(AliasableBox_deref(m, self).slice[1])
AliasableMut_hash(m, self) == ElemHash(AliasableMut_deref(m, self).slice[1])

\* the bytes hash(h) feeds a hasher, by kind of handle
HashOf(m, v) ==
    CASE v.kind = "AliasableBox"    -> AliasableBox_hash(m, v)
      [] v.kind = "AliasableMut"    -> AliasableMut_hash(m, v)
      [] v.kind = "AliasableString" -> AliasableString_hash(m, v)
      [] OTHER                      -> AliasableVec_hash(m, v)

\* ---------------------------------------------------------------- comparisons
\* T::cmp and T::eq of the element type (U::eq for another element type)
ElemCmp(x, y) == IF x < y THEN "Less" ELSE IF x > y THEN "Greater" ELSE "Equal"
ElemEq(x, y)  == x = y

\* <[T] as PartialEq<[U]>>::eq: equal lengths and pairwise equal elements
SliceEq(a, b) == Len(a) = Len(b) /\ \A k \in 1..Len(a) : ElemEq(a[k], b[k])

\* <[T] as Ord>::cmp: the first unequal pair of the common prefix decides,
\* else the lengths do
SliceCmp(a, b) ==
    LET l    == IF Len(a) < Len(b) THEN Len(a) ELSE Len(b)
        diff == {k \in 1..l : ElemCmp(a[k], b[k]) # "Equal"}
    IN  IF diff = {} THEN ElemCmp(Len(a), Len(b))
        ELSE LET k == CHOOSE k \in diff : \A j \in diff : k <= j
             IN  ElemCmp(a[k], b[k])

\* the provided methods of PartialEq and PartialOrd: ne from eq, and lt, le,
\* gt, ge from partial_cmp
Provided(eq, cmp, partial_cmp) ==
    [eq |-> eq, ne |-> ~eq, cmp |-> cmp, partial_cmp |-> partial_cmp,
     lt |-> partial_cmp = "Less",    le |-> partial_cmp \in {"Less", "Equal"},
     gt |-> partial_cmp = "Greater", ge |-> partial_cmp \in {"Greater", "Equal"}]

\* a variant of eq that compares the addresses
EqByAddress(m, self, other) == self.ptr = other.ptr
\* impl PartialEq<AliasableVec<U>> for AliasableVec<T>: **self == **other
AliasableVec_eq(m, self, other) ==
    SliceEq(AliasableVec_deref(m, self).slice, AliasableVec_deref(m, other).slice)

\* impl PartialOrd / Ord for AliasableVec: (**self).partial_cmp(&**other), (**self).cmp(&**other)
AliasableVec_cmp(m, self, other) ==
    SliceCmp(AliasableVec_deref(m, self).slice, AliasableVec_deref(m, other).slice)

AliasableVec_ops(m, self, other) ==
    Provided(AliasableVec_eq(m, self, other), AliasableVec_cmp(m, self, other),
             AliasableVec_cmp(m, self, other))

\* #[derive(PartialEq, Eq, PartialOrd, Ord)] on AliasableString: the field's
AliasableString_ops(m, self, other) == AliasableVec_ops(m, Inner(self), Inner(other))

\* impl PartialEq / PartialOrd / Ord for AliasableBox: every operator on **self, **other
AliasableBox_ops(m, self, other) ==
    LET x == AliasableBox_deref(m, self).slice[1]
        y == AliasableBox_deref(m, other).slice[1]
    IN  [eq |-> ElemEq(x, y), ne |-> ~ElemEq(x, y), cmp |-> ElemCmp(x, y),
         partial_cmp |-> ElemCmp(x, y), lt |-> x < y, le |-> x <= y, gt |-> x > y, ge |-> x >= y]

\* impl PartialEq / PartialOrd / Ord for AliasableMut: every operator on **self, **other
AliasableMut_ops(m, self, other) ==
    LET x == AliasableMut_deref(m, self).slice[1]
        y == AliasableMut_deref(m, other).slice[1]
    IN  [eq |-> ElemEq(x, y), ne |-> ~ElemEq(x, y), cmp |-> ElemCmp(x, y),
         partial_cmp |-> ElemCmp(x, y), lt |-> x < y, le |-> x <= y, gt |-> x > y, ge |-> x >= y]

\* the comparison operators of two handles of one kind
Ops(m, self, other) ==
    CASE self.kind = "AliasableBox"    -> AliasableBox_ops(m, self, other)
      [] self.kind = "AliasableMut"    -> AliasableMut_ops(m, self, other)
      [] self.kind = "AliasableString" -> AliasableString_ops(m, self, other)
      [] OTHER                         -> AliasableVec_ops(m, self, other)

\* ---------------------------------------------------------------- properties
Running == cf.pc \in {"truncate", "clone_from_slice", "reserve", "extend_from_slice", "guard_drop"}

\* the block an owner value is responsible for, if any
OwnsBlock(v, a) ==
    \/ IsBox(v) /\ v.ptr = a
    \/ IsBuffer(v) /\ v.cap > 0 /\ v.ptr = a

\* everything that owns the block at address a: places, and the guard of a
\* running clone_from
Owners(a) ==
    {p \in Places : OwnsBlock(val[p], a)}
        \cup (IF Running /\ OwnsBlock(cf.guard1, a) THEN {"guard"} ELSE {})

\* the raw parts of a buffer owner describe its block exactly
PartsMatch(m, v) ==
    IF v.cap = 0 THEN v.len = 0 /\ v.ptr = Dangling
    ELSE /\ v.ptr \in Addrs
         /\ m.heap[v.ptr].live
         /\ m.heap[v.ptr].cap = v.cap
         /\ Len(m.heap[v.ptr].data) = v.len

IsConversion ==
    \E p \in Places : \/ IsUnique(val[p]) /\ IsAliasable(val'[p])
                      \/ IsAliasable(val[p]) /\ IsUnique(val'[p])

\* C1: a unique owner that went through from_unique and into_unique is the
\* owner it was: same address, length, capacity and contents, and neither
\* conversion touches the heap
RoundTripState ==
    \A p \in Places :
        IsUnique(val[p]) /\ rt[p] # NoTrip =>
            /\ val[p] = rt[p].u
            /\ Contents(mem, val[p]) = rt[p].data
RoundTrip == []RoundTripState /\ [][IsConversion => mem' = mem]_vars

RoundTripWitness ==
    \E p \in Places :
        /\ val[p].kind = "UniqueVec" /\ rt[p] # NoTrip
        /\ val[p].len > 0 /\ val[p].cap > val[p].len

\* C2: every live allocation has exactly one owner
SingleOwner ==
    \A a \in Addrs : mem.heap[a].live => Cardinality(Owners(a)) = 1

SingleOwnerWitness ==
    /\ cf.pc = "reserve" /\ OwnsBlock(cf.guard1, cf.guard1.ptr)
    /\ val[cf.self].cap = 0
    /\ \E a, b \in Addrs : a # b /\ mem.heap[a].live /\ mem.heap[b].live

\* C3: no block is freed twice (or freed with a layout it was not allocated
\* with), and no owner is left holding a block that was already freed
NoDoubleFree ==
    /\ ~mem.badFree
    /\ \A p \in Places : \A a \in Addrs : OwnsBlock(val[p], a) => mem.heap[a].live

NoDoubleFreeWitness ==
    \E p, q \in Places :
        /\ IsUnique(val[p]) /\ rt[p] # NoTrip
        /\ val[p].ptr \in Addrs /\ mem.heap[val[p].ptr].live
        /\ rt[q] = Dropped

\* C4: dropping a handle frees exactly the handle's block, and once every
\* owner is gone no block is live
NoLeakState ==
    (cf.pc = "idle" /\ \A p \in Places : val[p] = NoValue) =>
        \A a \in Addrs : ~mem.heap[a].live
DropFreesOwn ==
    \A p \in Places :
        IsAliasable(val[p]) /\ val'[p] = NoValue =>
            \A a \in Addrs :
                IF OwnsBlock(val[p], a) THEN mem.heap[a].live /\ ~mem'.heap[a].live
                ELSE mem'.heap[a] = mem.heap[a]
NoLeak == []NoLeakState /\ [][DropFreesOwn]_vars

NoLeakWitness ==
    /\ cf.pc = "idle"
    /\ \A p \in Places : val[p] = NoValue /\ rt[p] = Dropped

\* C5: the address, length and capacity of every AliasableVec are those of
\* its block, so every reassembly uses the parts the allocator knows
Bookkeeping ==
    \A p \in Places :
        val[p].kind \in {"AliasableVec", "AliasableString"} => PartsMatch(mem, val[p])

BookkeepingWitness ==
    /\ cf.pc = "returned" /\ cf.allocCalls = 1
    /\ cf.before.v.cap > 0
    /\ val[cf.self].len > cf.before.v.len

\* C6: after clone_from has unwound from a panic the receiver is a valid
\* buffer owning one block, nothing was freed twice and no block is orphaned
PanicSafety ==
    cf.pc = "unwound" =>
        LET h == val[cf.self]
        IN  /\ h.cap > 0 /\ PartsMatch(mem, h) /\ h.len <= h.cap
            /\ Owners(h.ptr) = {cf.self}
            /\ ~mem.badFree
            /\ \A a \in Addrs : mem.heap[a].live => Cardinality(Owners(a)) = 1

PanicSafetyWitness ==
    /\ cf.pc = "unwound" /\ cf.allocCalls = 1
    /\ val[cf.self].len > 0

Min(x, y) == IF x < y THEN x ELSE y

\* C7 as stated: a clone_from that panicked left the receiver as it was
AllOrNothing ==
    cf.pc = "unwound" =>
        /\ val[cf.self].len = cf.before.v.len
        /\ Contents(mem, val[cf.self]) = cf.before.data

\* C7 amended: a clone_from that panicked after k element clones leaves the
\* first k elements of the source followed by the receiver's old elements
\* from k up to the shorter of the two lengths
PartialProgress ==
    cf.pc = "unwound" =>
        LET old == cf.before.data
            src == cf.before.src
            mid == Min(Len(old), Len(src))
        IN  \E k \in 0..(Len(src) - 1) :
                Contents(mem, val[cf.self]) = SubSeq(src, 1, k) \o SubSeq(old, k + 1, mid)

PartialProgressWitness ==
    /\ cf.pc = "unwound"
    /\ Contents(mem, val[cf.self]) # cf.before.data
    /\ Contents(mem, val[cf.self]) # cf.before.src

\* C8: a completed clone_from leaves the receiver equal to the source, and
\* the source as it was
CloneFromCorrect ==
    cf.pc = "returned" =>
        /\ Contents(mem, val[cf.self]) = Contents(mem, val[cf.source])
        /\ val[cf.self].len = val[cf.source].len
        /\ Contents(mem, val[cf.source]) = cf.before.src

CloneFromCorrectWitness ==
    /\ cf.pc = "returned"
    /\ Len(cf.before.data) > 0
    /\ Len(cf.before.src) > Len(cf.before.data)
    /\ cf.before.data # SubSeq(cf.before.src, 1, Len(cf.before.data))

\* C9: when the source fits the receiver's capacity, clone_from keeps the
\* receiver's block: same address, same capacity, no allocator call
CapacityReuse ==
    (cf.pc \in {"returned", "unwound"} /\ Len(cf.before.src) <= cf.before.v.cap) =>
        /\ val[cf.self].ptr = cf.before.v.ptr
        /\ val[cf.self].cap = cf.before.v.cap
        /\ cf.allocCalls = 0

CapacityReuseWitness ==
    /\ cf.pc = "returned"
    /\ Len(cf.before.src) > Len(cf.before.data)
    /\ Len(cf.before.src) <= cf.before.v.cap

\* C10: every AliasableVec, the placeholder of a running clone_from
\* included, has length <= capacity
LenLeCap ==
    \A p \in Places :
        val[p].kind \in {"AliasableVec", "AliasableString"} => val[p].len <= val[p].cap

LenLeCapWitness ==
    /\ Running /\ cf.before.v.len > 0
    /\ val[cf.self] = MemTake(cf.before.v)

\* ---------------------------------------------------------------- clone
\* the step is a returning clone() of the buffer in place p into place q: a
\* non-empty buffer makes to_vec allocate, an empty one leaves the heap alone,
\* and the new handle wraps no unique value the program held
IsCloneOf(p, q) ==
    /\ p # q /\ cf.pc = "idle" /\ cf'.pc = "idle"
    /\ val[p].kind \in {"AliasableVec", "AliasableString"}
    /\ val[q] = NoValue
    /\ val'[q].kind = val[p].kind /\ val'[q].elem = val[p].elem
    /\ rt'[q] = NoTrip
    /\ (val[p].len > 0 <=> mem' # mem)

\* what clone() gives whatever the length: equal contents, no shared block,
\* the original untouched
CloneCopies(p, q) ==
    /\ Contents(mem', val'[q]) = Contents(mem, val[p])
    /\ val'[q].len = val[p].len
    /\ val'[p] = val[p]
    /\ Contents(mem', val'[p]) = Contents(mem, val[p])
    /\ \A a \in Addrs : ~(OwnsBlock(val'[q], a) /\ OwnsBlock(val'[p], a))
    /\ PartsMatch(mem', val'[q])

\* C11 as stated: the clone's address differs from the original's address for
\* a buffer of any length
CloneFidelity ==
    [][\A p, q \in Places :
          IsCloneOf(p, q) => CloneCopies(p, q) /\ val'[q].ptr # val[p].ptr]_vars

\* C11 amended: a clone has equal contents and shares no block; the clone of
\* a non-empty buffer sits in a block that was free before, at another
\* address than the original, and the clone of an empty buffer has no block
\* at all, so its (dangling) address equals that of an original without one
CloneFidelityNonEmpty ==
    [][\A p, q \in Places :
          IsCloneOf(p, q) =>
              /\ CloneCopies(p, q)
              /\ val[p].len > 0 =>
                    /\ val'[q].ptr \in Addrs /\ val'[q].ptr # val[p].ptr
                    /\ ~mem.heap[val'[q].ptr].live /\ mem'.heap[val'[q].ptr].live
              /\ val[p].len = 0 =>
                    /\ val'[q].cap = 0 /\ val'[q].ptr = Dangling
                    /\ (val[p].cap = 0 <=> val'[q].ptr = val[p].ptr)]_vars

CloneFidelityWitness ==
    \E p, q \in Places :
        /\ p # q /\ cf.pc = "idle"
        /\ val[p].kind = "AliasableString" /\ val[q].kind = "AliasableString"
        /\ val[p].len = MaxLen /\ val[p].cap = MaxLen
        /\ Contents(mem, val[q]) = Contents(mem, val[p])
        /\ val[q].ptr # val[p].ptr /\ val[q].cap = val[q].len

\* ---------------------------------------------------------------- stable address
\* place p holds the receiver of a clone_from call that has not returned yet
Receiver(c, p) == c.pc # "idle" /\ c.self = p

\* across a step, every handle that stays alive and is not inside its own
\* clone_from call dereferences to the address it did before
StableStep ==
    \A p \in Places :
        (IsAliasable(val[p]) /\ IsAliasable(val'[p]) /\ ~Receiver(cf, p) /\ ~Receiver(cf', p)) =>
            /\ Deref(mem', val'[p]).addr = Deref(mem, val[p]).addr
            /\ DerefMut(mem', val'[p]).addr = DerefMut(mem, val[p]).addr

Utf8Invariant ==
    \A p \in Places :
        /\ val[p].kind = "AliasableString" => IsUtf8(AliasableString_deref(mem, val[p]).slice)
        /\ val[p].kind = "UniqueString" => IsUtf8(Contents(mem, val[p]))

\* clone_from has cut the taken buffer inside a two-byte character while the
\* receiver shows the empty text
Utf8InvariantWitness ==
    /\ Running /\ val[cf.self].kind = "AliasableString"
    /\ IsUtf8(cf.before.data)
    /\ ~IsUtf8(Contents(mem, cf.guard1))
    /\ AliasableString_deref(mem, val[cf.self]).slice = <<>>

\* ---------------------------------------------------------------- pin
IsUniqueOwner(v) == IsUnique(v) \/ v.kind = "UniqueMut"
IsHandle(v)      == IsAliasable(v) \/ v.kind = "AliasableMut"

\* what an owner, a borrow, a handle or a slot lets its holder read
Holds(m, v) ==
    IF v.kind \in {"UniqueMut", "AliasableMut"} THEN m.heap[v.ptr].data ELSE Contents(m, v)

\* the view deref gives of a handle or a slot
HandleDeref(m, v) ==
    IF v.kind = "AliasableMut" THEN AliasableMut_deref(m, v) ELSE Deref(m, v)

IsPinConversion ==
    \E p \in Places :
        /\ val[p].pin /\ val'[p].pin
        /\ \/ IsUniqueOwner(val[p]) /\ IsHandle(val'[p])
           \/ IsHandle(val[p]) /\ IsUniqueOwner(val'[p])

PinRoundTripState ==
    \A p \in Places :
        (rt[p] # NoTrip /\ rt[p] # Dropped /\ rt[p].u.pin) =>
            /\ val[p].pin
            /\ Holds(mem, val[p]) = rt[p].data
            /\ IF IsHandle(val[p])
               THEN HandleDeref(mem, val[p]).addr = rt[p].u.ptr
               ELSE val[p] = rt[p].u

\* C14: a pinned Box, Vec, String or &mut that went through from_unique_pin
\* and into_unique_pin is the pinned value it was, at the same address with
\* the same contents; the pinned handle in between dereferences to that
\* address, and neither conversion touches memory
PinRoundTrip == []PinRoundTripState /\ [][IsPinConversion => mem' = mem]_vars

PinRoundTripWitness ==
    \E p \in Places :
        /\ val[p].kind = "UniqueString" /\ val[p].pin
        /\ rt[p] # NoTrip /\ rt[p].u.pin
        /\ val[p].len > 0 /\ val[p].cap > val[p].len

\* ---------------------------------------------------------------- contents
HandleDerefMut(m, v) ==
    IF v.kind = "AliasableMut" THEN AliasableMut_deref_mut(m, v) ELSE DerefMut(m, v)
HandleAsRef(m, v) ==
    IF v.kind = "AliasableMut" THEN AliasableMut_as_ref(m, v) ELSE AsRef(m, v)
HandleAsMut(m, v) ==
    IF v.kind = "AliasableMut" THEN AliasableMut_as_mut(m, v) ELSE AsMut(m, v)

\* C15: a handle built by from_unique dereferences to exactly what the unique
\* value held; the view of a buffer has length len and no slot of the spare
\* capacity in it; deref, deref_mut, as_ref and as_mut give one address
ContentPreserved ==
    \A p \in Places :
        IsHandle(val[p]) =>
            LET v == HandleDeref(mem, val[p])
            IN  /\ (rt[p] # NoTrip => v.slice = rt[p].data /\ v.addr = rt[p].u.ptr)
                /\ (IsBuffer(val[p]) => Len(v.slice) = val[p].len)
                /\ \A k \in DOMAIN v.slice : v.slice[k] # Uninit
                /\ HandleDerefMut(mem, val[p]).addr = v.addr
                /\ HandleAsRef(mem, val[p]).addr = v.addr
                /\ HandleAsMut(mem, val[p]).addr = v.addr
                /\ HandleDerefMut(mem, val[p]).slice = v.slice

ContentPreservedWitness ==
    \E p \in Places :
        /\ val[p].kind = "AliasableVec" /\ rt[p] # NoTrip
        /\ val[p].len > 0 /\ val[p].cap > val[p].len
        /\ AliasableVec_deref(mem, val[p]).slice = rt[p].data

\* ---------------------------------------------------------------- slot
SlotRoundTripState ==
    \A p \in Places :
        rt[p] # NoTrip =>
            /\ mem.heap[rt[p].u.ptr].data = rt[p].data
            /\ val[p].kind = "UniqueMut" => val[p] = rt[p].u
            /\ val[p].kind = "AliasableMut" =>
                  /\ AliasableMut_deref(mem, val[p]).addr = rt[p].u.ptr
                  /\ AliasableMut_deref(mem, val[p]).slice = rt[p].data

\* no step allocates or frees; a step that makes, converts or drops a borrow
\* or a slot leaves every local as it is; the only step that changes a local
\* is a write through a slot, and it changes the slot's referent alone
SlotFrame ==
    /\ mem'.badFree = mem.badFree
    /\ \A a \in Addrs : /\ mem'.heap[a].live = mem.heap[a].live
                        /\ mem'.heap[a].cap = mem.heap[a].cap
    /\ val' # val => mem' = mem
    /\ mem' # mem =>
          \E p \in Places, e \in Elems :
              /\ val[p].kind = "AliasableMut"
              /\ mem' = [mem EXCEPT !.heap[val[p].ptr].data = <<e>>]
              /\ rt'[p].data = <<e>>

\* C16: into_unique(from_unique(r)) is a borrow of r's address with the
\* referent as it was (or as last written through the slot); making,
\* converting and dropping a slot neither allocates, frees nor changes the
\* referent; what is written through deref_mut is what the local holds
SlotConversion == []SlotRoundTripState /\ [][SlotFrame]_vars

\* a borrow that came back from a slot through which its referent was changed
SlotConversionWitness ==
    \E p \in Places :
        /\ val[p].kind = "UniqueMut" /\ ~val[p].pin
        /\ rt[p] # NoTrip /\ "written" \in DOMAIN rt[p]

\* ---------------------------------------------------------------- hashing
\* C17: hash(h) feeds the hasher what hashing the content h dereferences to
\* feeds it: a text hashes as a str (bytes, then 0xff) and not as the byte
\* slice underneath, a buffer as a slice (length, then elements), a box and a
\* slot as the value
HashConsistency ==
    \A p \in Places :
        IsHandle(val[p]) =>
            LET content == Holds(mem, val[p])
                fed     == HashOf(mem, val[p])
            IN  CASE val[p].kind = "AliasableString" ->
                         fed = StrHash(content) /\ fed # SliceHash(content)
                  [] val[p].kind = "AliasableVec"    -> fed = SliceHash(content)
                  [] OTHER                           -> fed = ElemHash(content[1])

HashConsistencyWitness ==
    \E p \in Places :
        /\ val[p].kind = "AliasableString" /\ val[p].len = 2
        /\ HashOf(mem, val[p]) = <<195, 169, 255>>

\* ---------------------------------------------------------------- comparison
\* a comes before b in the lexicographic order of sequences
LexLess(a, b) ==
    \E k \in 0..Len(a) :
        /\ k <= Len(b)
        /\ \A i \in 1..k : a[i] = b[i]
        /\ \/ k = Len(a) /\ k < Len(b)
           \/ k < Len(a) /\ k < Len(b) /\ a[k + 1] < b[k + 1]

\* the eight operators as the contents a and b order themselves
ByContent(a, b) ==
    [eq |-> a = b, ne |-> a # b,
     lt |-> LexLess(a, b), le |-> LexLess(a, b) \/ a = b,
     gt |-> LexLess(b, a), ge |-> LexLess(b, a) \/ a = b,
     cmp         |-> IF LexLess(a, b) THEN "Less" ELSE IF LexLess(b, a) THEN "Greater" ELSE "Equal",
     partial_cmp |-> IF LexLess(a, b) THEN "Less" ELSE IF LexLess(b, a) THEN "Greater" ELSE "Equal"]

IntoBytesStep ==
    \A p \in Places :
        (val[p].kind = "AliasableString" /\ val'[p].kind = "AliasableVec") =>
            /\ val'[p].elem = "u8"
            /\ val'[p].ptr = val[p].ptr /\ val'[p].len = val[p].len /\ val'[p].cap = val[p].cap
            /\ AliasableVec_deref(mem', val'[p]) = AliasableString_deref(mem, val[p])
            /\ mem' = mem
            /\ \A q \in Places \ {p} : val'[q] = val[q]
            /\ \A a \in Addrs :
                  OwnsBlock(val[p], a) =>
                      /\ mem'.heap[a].live
                      /\ {q \in Places : OwnsBlock(val'[q], a)} = {p}
IntoBytes == [][IntoBytesStep]_vars

IntoBytesWitness ==
    \E p \in Places :
        /\ val[p].kind = "AliasableVec" /\ val[p].elem = "u8"
        /\ val[p].len > 0 /\ val[p].cap > val[p].len
        /\ rt[p] = NoTrip /\ cf.pc = "idle"

\* ---------------------------------------------------------------- default
\* from_unique of the unique owner u, by kind
FromUnique(u) ==
    CASE u.kind = "UniqueBox"    -> AliasableBox_from_unique(u)
      [] u.kind = "UniqueString" -> AliasableString_from_unique(u)
      [] OTHER                   -> AliasableVec_from_unique(u)

\* C20: a handle made by default() is, and compares equal to, from_unique of
\* the unique type's default value: an empty buffer of length 0, an empty
\* text, a box holding T's default value
DefaultConstruction ==
    \A p \in Places :
        (IsAliasable(val[p]) /\ "default" \in DOMAIN rt[p]) =>
            LET unique == rt[p].u
                wrapped == FromUnique(unique)
            IN  /\ val[p] = wrapped
                /\ Ops(mem, val[p], wrapped).eq
                /\ CASE val[p].kind = "AliasableVec" ->
                            /\ unique = VecNew(val[p].elem)
                            /\ val[p].len = 0 /\ AliasableVec_deref(mem, val[p]).slice = <<>>
                     [] val[p].kind = "AliasableString" ->
                            /\ unique = StringNew
                            /\ val[p].len = 0 /\ AliasableString_deref(mem, val[p]).slice = <<>>
                     [] OTHER ->
                            /\ unique = BoxNew(val[p].ptr)
                            /\ AliasableBox_deref(mem, val[p]).slice = <<ElemDefault>>

DefaultConstructionWitness ==
    \E p, q \in Places :
        /\ val[p].kind = "AliasableBox" /\ "default" \in DOMAIN rt[p]
        /\ val[q].kind = "AliasableString" /\ "default" \in DOMAIN rt[q]

\* ---------------------------------------------------------------- C21
\* the clone_from call is past guard.1.truncate and source.split_at
Sliced == cf.pc \in {"clone_from_slice", "reserve", "extend_from_slice"}

\* the element at index k of the buffer the call holds after a step
HeldNext(k) == mem'.heap[cf'.guard1.ptr].data[k]

SlicingState ==
    Sliced =>
        LET s == SplitAt(Source, cf.mid)
        IN  /\ cf.mid = Min(cf.before.v.len, val[cf.source].len)
            /\ cf.mid <= val[cf.source].len
            /\ Len(Source) = val[cf.source].len
            /\ s.init \o s.tail = Source
            /\ Len(s.tail) = Len(Source) - cf.mid
            /\ \A k \in 1..Len(s.tail) : s.tail[k] = Source[cf.mid + k]
            /\ cf.pc \in {"clone_from_slice", "reserve"} => cf.guard1.len = Len(s.init)
            /\ cf.pc = "extend_from_slice" => cf.guard1.len = cf.mid + cf.i

SlicingStep ==
    /\ (cf.pc = "truncate" /\ cf'.pc # "truncate") =>
           /\ ~cf'.panicking
           /\ cf'.guard1.len = Min(cf.before.v.len, val[cf.source].len)
    /\ (cf.pc = "clone_from_slice" /\ ~cf'.panicking) =>
           /\ cf'.guard1.len = cf.guard1.len
           /\ HeldNext(cf'.i) = Source[cf'.i]
    /\ (cf.pc = "extend_from_slice" /\ ~cf'.panicking) =>
           /\ cf'.guard1.len = cf.guard1.len + 1
           /\ HeldNext(cf'.guard1.len) = Source[cf.mid + cf'.i]
    /\ (cf'.panicking /\ ~cf.panicking) =>
           /\ cf.pc \in {"clone_from_slice", "extend_from_slice"}
           /\ val[cf.self].elem = "T"
           /\ mem' = mem

\* C21: clone_from's own slicing never fails: the taken buffer is truncated
\* to min(old receiver length, source length), the split of the source at
\* that index is in bounds, the overwritten prefix is as long as the buffer,
\* what is appended is source[index..], and the call unwinds only from an
\* element's clone
CloneFromSlicing == []SlicingState /\ [][SlicingStep]_vars

CloneFromSlicingWitness ==
    /\ cf.pc = "clone_from_slice" /\ cf.i = 0
    /\ cf.before.v.len > val[cf.source].len
    /\ cf.guard1.len = val[cf.source].len
    /\ cf.mid > 0

====
